---- MODULE Spec2Model ----
(***************************************************************************)
(* County land-cover aggregation (process_county_landcover.py).            *)
(*                                                                         *)
(* The model follows process_county_landcover(): the two sources are       *)
(* loaded, every county polygon is sampled against the raster, the raw     *)
(* per-code pixel counts are folded through NLCD_RECLASSIFICATION into six *)
(* class counts, calculate_proportions() normalises the five real classes, *)
(* one record per county is appended to results, the records are put in a  *)
(* DataFrame, the proportions of each row are summed and checked against   *)
(* [0.99, 1.01], the helper column is dropped and the table is written.    *)
(*                                                                         *)
(* Python's float is modelled as a binary floating-point number with       *)
(* MantissaBits bits of mantissa and round-to-nearest-even (IEEE 754       *)
(* double has 53; the model keeps the rounding and shortens the mantissa   *)
(* so that the numbers fit TLC's 32-bit integers).                         *)
(***************************************************************************)
EXTENDS Integers, Sequences, FiniteSets, TLC

\* ------------------------------------------------------------------ bounds

\* Longest batch of county polygons.
MaxCounties == 3
\* Largest number of pixels of one raw code inside one polygon (enumerated
\* tallies; the scenario tallies of the specification are added as they are).
MaxCount == 2
\* Bits of mantissa of the modelled float.
MantissaBits == 12

\* ------------------------------------------------------------------ floats

RECURSIVE Pow2(_)
Pow2(k) == IF k <= 0 THEN 1 ELSE 2 * Pow2(k - 1)

\* n / d rounded to the nearest integer, ties to even.
RoundHalfEven(n, d) ==
    LET q == n \div d
        r == n % d
    IN  IF 2 * r < d THEN q
        ELSE IF 2 * r > d THEN q + 1
        ELSE IF q % 2 = 0 THEN q ELSE q + 1

\* A float is [m, e] with value m / 2^e, 2^(MantissaBits-1) <= m < 2^MantissaBits,
\* or the zero [0, 0].
FZero == [m |-> 0, e |-> 0]

\* Mantissa overflow after rounding: 2^MantissaBits becomes 2^(MantissaBits-1).
FRenorm(m, e) ==
    IF m = Pow2(MantissaBits) THEN [m |-> Pow2(MantissaBits - 1), e |-> e - 1]
    ELSE [m |-> m, e |-> e]

RECURSIVE FExpOfRatio(_, _, _)
FExpOfRatio(n, d, e) ==
    IF n * Pow2(e) >= d * Pow2(MantissaBits - 1) THEN e
    ELSE FExpOfRatio(n, d, e + 1)

\* The float nearest to the rational n / d (0 <= n, 0 < d, n / d < 2^MantissaBits):
\* a true division of two exactly representable integers, or a decimal literal.
FloatOfRatio(n, d) ==
    IF n = 0 THEN FZero
    ELSE LET e == FExpOfRatio(n, d, 0)
         IN  FRenorm(RoundHalfEven(n * Pow2(e), d), e)

RECURSIVE FShiftUp(_, _)
FShiftUp(n, e) ==
    IF n >= Pow2(MantissaBits - 1) THEN [m |-> n, e |-> e]
    ELSE FShiftUp(2 * n, e + 1)

RECURSIVE FShiftDown(_, _)
FShiftDown(n, k) == IF n \div Pow2(k) < Pow2(MantissaBits) THEN k ELSE FShiftDown(n, k + 1)

\* The float nearest to the dyadic n / 2^e.
FloatOfDyadic(n, e) ==
    IF n = 0 THEN FZero
    ELSE IF n < Pow2(MantissaBits) THEN FShiftUp(n, e)
    ELSE LET k == FShiftDown(n, 0)
         IN  FRenorm(RoundHalfEven(n, Pow2(k)), e - k)

FMaxExp(x, y) == IF x.e >= y.e THEN x.e ELSE y.e

\* x's numerator over the denominator 2^e (e >= x.e).
FNum(x, e) == x.m * Pow2(e - x.e)

\* x + y, correctly rounded.
FAdd(x, y) ==
    LET e == FMaxExp(x, y)
    IN  FloatOfDyadic(FNum(x, e) + FNum(y, e), e)

FLess(x, y) == LET e == FMaxExp(x, y) IN FNum(x, e) < FNum(y, e)
FGreater(x, y) == FLess(y, x)

\* int / int (Python's true division).
TrueDiv(a, b) == FloatOfRatio(a, b)

\* ------------------------------------------------------------------ dicts

\* A Python dict whose key order is observable is a sequence of <<key, value>>
\* pairs in insertion order.
DictKeys(d) == [i \in 1..Len(d) |-> d[i][1]]
DictHas(d, k) == \E i \in 1..Len(d) : d[i][1] = k
DictGet(d, k) == d[CHOOSE i \in 1..Len(d) : d[i][1] = k][2]

SetMin(S) == CHOOSE x \in S : \A y \in S : x <= y

\* ------------------------------------------------------------------ text

\* A str of decimal digits is the sequence of its digits.
\* int(text): the number the digits write.
RECURSIVE ParseInt(_)
ParseInt(text) ==
    IF Len(text) = 0 THEN 0
    ELSE 10 * ParseInt(SubSeq(text, 1, Len(text) - 1)) + text[Len(text)]

\* str(n) of an int n >= 0: its digits, without leading zeros.
RECURSIVE IntToStr(_)
IntToStr(n) == IF n < 10 THEN <<n>> ELSE Append(IntToStr(n \div 10), n % 10)

\* text.zfill(width): zeros on the left up to the width.
RECURSIVE zfill(_, _)
zfill(text, width) == IF Len(text) >= width THEN text ELSE zfill(<<0>> \o text, width)

\* ------------------------------------------------------------------ the table

\* The table with the raster's background value 0 entered as a nodata code.
NLCD_RECLASSIFICATION_zero_as_nodata ==
    (0 :> "nodata") @@
    (41 :> "forest") @@ (42 :> "forest") @@ (43 :> "forest") @@
    (81 :> "agriculture") @@ (82 :> "agriculture") @@
    (21 :> "developed") @@ (22 :> "developed") @@ (23 :> "developed") @@
    (24 :> "developed") @@
    (90 :> "wetland") @@ (95 :> "wetland") @@
    (11 :> "other") @@ (12 :> "other") @@ (31 :> "other") @@ (52 :> "other") @@
    (71 :> "other") @@
    (250 :> "nodata")

\* NLCD_RECLASSIFICATION = {41: 'forest', ...}
NLCD_RECLASSIFICATION ==
    (41 :> "forest") @@ (42 :> "forest") @@ (43 :> "forest") @@
    (81 :> "agriculture") @@ (82 :> "agriculture") @@
    (21 :> "developed") @@ (22 :> "developed") @@ (23 :> "developed") @@
    (24 :> "developed") @@
    (90 :> "wetland") @@ (95 :> "wetland") @@
    (11 :> "other") @@ (12 :> "other") @@ (31 :> "other") @@ (52 :> "other") @@
    (71 :> "other") @@
    (250 :> "nodata")

ClassNames == <<"forest", "agriculture", "developed", "wetland", "other", "nodata">>
ClassSet == {ClassNames[i] : i \in 1..Len(ClassNames)}

\* class_counts = {'forest': 0, ..., 'nodata': 0}
EmptyClassCounts == [c \in ClassSet |-> 0]

\* ------------------------------------------------------------------ sampling

\* zonal_stats without nodata=0: the value 0 is a category like any other.
zonal_stats_keeps_zero(pixels) ==
    << [v \in DOMAIN pixels |-> pixels[v]] >>

\* zonal_stats(geometry, raster, categorical=True, nodata=0) for a polygon whose
\* pixels are the bag `pixels` (raw value -> number of pixels): one dict of
\* per-value counts, the value 0 left out.
zonal_stats(pixels) ==
    << [v \in (DOMAIN pixels) \ {0} |-> pixels[v]] >>

\* Python truthiness of a list and of a dict.
ListIsEmpty(l) == Len(l) = 0
MapIsEmpty(d) == DOMAIN d = {}

\* ------------------------------------------------------------------ the fold

\* for nlcd_value, count in pixel_counts.items():
\*     if nlcd_value in NLCD_RECLASSIFICATION: class_counts[class_name] += count
\* The fold with an unknown code counted as 'other'.
RECURSIVE FoldItems_unknown_as_other(_, _, _)
FoldItems_unknown_as_other(pixel_counts, todo, class_counts) ==
    IF todo = {} THEN class_counts
    ELSE LET nlcd_value == SetMin(todo)
             count == pixel_counts[nlcd_value]
             class_name == IF nlcd_value \in DOMAIN NLCD_RECLASSIFICATION
                           THEN NLCD_RECLASSIFICATION[nlcd_value] ELSE "other"
         IN  FoldItems_unknown_as_other(pixel_counts, todo \ {nlcd_value},
                                        [class_counts EXCEPT ![class_name] = @ + count])

\* The fold with `class_counts[class_name] = count` for `+= count`.
RECURSIVE FoldItems_assigns(_, _, _)
FoldItems_assigns(pixel_counts, todo, class_counts) ==
    IF todo = {} THEN class_counts
    ELSE LET nlcd_value == SetMin(todo)
             count == pixel_counts[nlcd_value]
             next == IF nlcd_value \in DOMAIN NLCD_RECLASSIFICATION
                     THEN LET class_name == NLCD_RECLASSIFICATION[nlcd_value]
                          IN  [class_counts EXCEPT ![class_name] = count]
                     ELSE class_counts
         IN  FoldItems_assigns(pixel_counts, todo \ {nlcd_value}, next)

RECURSIVE FoldItems(_, _, _)
FoldItems(pixel_counts, todo, class_counts) ==
    IF todo = {} THEN class_counts
    ELSE LET nlcd_value == SetMin(todo)
             count == pixel_counts[nlcd_value]
             next == IF nlcd_value \in DOMAIN NLCD_RECLASSIFICATION
                     THEN LET class_name == NLCD_RECLASSIFICATION[nlcd_value]
                          IN  [class_counts EXCEPT ![class_name] = @ + count]
                     ELSE class_counts
         IN  FoldItems(pixel_counts, todo \ {nlcd_value}, next)

FoldPixelCounts(pixel_counts) ==
    FoldItems(pixel_counts, DOMAIN pixel_counts, EmptyClassCounts)

\* np.unique(array[array != 0], return_counts=True) for an array whose cells
\* are the bag `array`: the values other than 0 and the count of each.
UniqueNonZero(array) == [v \in (DOMAIN array) \ {0} |-> array[v]]

\* for value, count in zip(unique_values, counts):
\*     if value in reclassification_map: class_counts[class_name] += count
RECURSIVE ReclassifyValues(_, _, _, _)
ReclassifyValues(counts, unique_values, reclassification_map, class_counts) ==
    IF unique_values = {} THEN class_counts
    ELSE LET value == SetMin(unique_values)
             rest == unique_values \ {value}
         IN  IF value \in DOMAIN reclassification_map
             THEN ReclassifyValues(counts, rest, reclassification_map,
                     [class_counts EXCEPT ![reclassification_map[value]] = @ + counts[value]])
             ELSE ReclassifyValues(counts, rest, reclassification_map, class_counts)

\* reclassify_array adding 1 for each unique value: np.unique without the counts.
reclassify_array_counts_values(array, reclassification_map) ==
    ReclassifyValues([v \in DOMAIN UniqueNonZero(array) |-> 1], DOMAIN UniqueNonZero(array),
                     reclassification_map, EmptyClassCounts)

reclassify_array(array, reclassification_map) ==
    ReclassifyValues(UniqueNonZero(array), DOMAIN UniqueNonZero(array),
                     reclassification_map, EmptyClassCounts)

\* ------------------------------------------------------------------ proportions

RECURSIVE SumValid(_, _)
SumValid(class_counts, i) ==
    IF i > Len(ClassNames) THEN 0
    ELSE (IF ClassNames[i] # "nodata" THEN class_counts[ClassNames[i]] ELSE 0)
         + SumValid(class_counts, i + 1)

\* sum(class_counts.values()): the filter on the class name left out.
TotalValidPixels_all_entries(class_counts) ==
    class_counts["forest"] + class_counts["agriculture"] + class_counts["developed"]
    + class_counts["wetland"] + class_counts["other"] + class_counts["nodata"]

\* sum(count for class_name, count in class_counts.items() if class_name != 'nodata')
TotalValidPixels(class_counts) == SumValid(class_counts, 1)

ZeroProportions ==
    << <<"forest_proportion", FZero>>,
       <<"agriculture_proportion", FZero>>,
       <<"developed_proportion", FZero>>,
       <<"wetland_proportion", FZero>>,
       <<"other_proportion", FZero>> >>

\* A float that is not a number.
FNaN == [m |-> -1, e |-> 0]

\* calculate_proportions with nodata left in the denominator.
calculate_proportions_nodata_in_total(class_counts) ==
    LET total == TotalValidPixels(class_counts) + class_counts["nodata"]
    IN  IF total = 0 THEN ZeroProportions
        ELSE << <<"forest_proportion", TrueDiv(class_counts["forest"], total)>>,
                <<"agriculture_proportion", TrueDiv(class_counts["agriculture"], total)>>,
                <<"developed_proportion", TrueDiv(class_counts["developed"], total)>>,
                <<"wetland_proportion", TrueDiv(class_counts["wetland"], total)>>,
                <<"other_proportion", TrueDiv(class_counts["other"], total)>> >>

\* calculate_proportions without the zero guard, dividing as numpy does (0/0 = nan).
calculate_proportions_unguarded(class_counts) ==
    LET total_valid_pixels == TotalValidPixels(class_counts)
        Div(a, b) == IF b = 0 THEN FNaN ELSE TrueDiv(a, b)
    IN  << <<"forest_proportion", Div(class_counts["forest"], total_valid_pixels)>>,
           <<"agriculture_proportion", Div(class_counts["agriculture"], total_valid_pixels)>>,
           <<"developed_proportion", Div(class_counts["developed"], total_valid_pixels)>>,
           <<"wetland_proportion", Div(class_counts["wetland"], total_valid_pixels)>>,
           <<"other_proportion", Div(class_counts["other"], total_valid_pixels)>> >>

\* calculate_proportions with add-one smoothing.
calculate_proportions_smoothed(class_counts) ==
    LET total_valid_pixels == TotalValidPixels(class_counts)
    IN  IF total_valid_pixels = 0 THEN ZeroProportions
        ELSE << <<"forest_proportion", TrueDiv(class_counts["forest"] + 1, total_valid_pixels + 5)>>,
                <<"agriculture_proportion", TrueDiv(class_counts["agriculture"] + 1, total_valid_pixels + 5)>>,
                <<"developed_proportion", TrueDiv(class_counts["developed"] + 1, total_valid_pixels + 5)>>,
                <<"wetland_proportion", TrueDiv(class_counts["wetland"] + 1, total_valid_pixels + 5)>>,
                <<"other_proportion", TrueDiv(class_counts["other"] + 1, total_valid_pixels + 5)>> >>

calculate_proportions(class_counts) ==
    LET total_valid_pixels == TotalValidPixels(class_counts)
    IN  IF total_valid_pixels = 0 THEN ZeroProportions
        ELSE << <<"forest_proportion", TrueDiv(class_counts["forest"], total_valid_pixels)>>,
                <<"agriculture_proportion", TrueDiv(class_counts["agriculture"], total_valid_pixels)>>,
                <<"developed_proportion", TrueDiv(class_counts["developed"], total_valid_pixels)>>,
                <<"wetland_proportion", TrueDiv(class_counts["wetland"], total_valid_pixels)>>,
                <<"other_proportion", TrueDiv(class_counts["other"], total_valid_pixels)>> >>

\* calculate_proportions without the 'nodata' entry, removed to sum the rest.
ClassCountsAfterCall_pops_nodata(class_counts) ==
    [c \in ClassSet \ {"nodata"} |-> class_counts[c]]

\* The dict passed to calculate_proportions as the call leaves it: the function
\* only reads class_counts (.items() and five lookups).
ClassCountsAfterCall(class_counts) == class_counts

\* The record of the "no raster data" branch with a missing-value marker for
\* every proportion.
NoRasterDataResult_missing(county_fips) ==
    << <<"county_fips", county_fips>>,
       <<"forest_proportion", FNaN>>,
       <<"agriculture_proportion", FNaN>>,
       <<"developed_proportion", FNaN>>,
       <<"wetland_proportion", FNaN>>,
       <<"other_proportion", FNaN>> >>

\* result = {'county_fips': county_fips, 'forest_proportion': 0.0, ...} of the
\* "no raster data" branch.
NoRasterDataResult(county_fips) ==
    << <<"county_fips", county_fips>>,
       <<"forest_proportion", FZero>>,
       <<"agriculture_proportion", FZero>>,
       <<"developed_proportion", FZero>>,
       <<"wetland_proportion", FZero>>,
       <<"other_proportion", FZero>> >>

\* The record with the identifier as a number: int(county['GEOID']).
NormalResult_int_fips(county_fips, proportions) ==
    << <<"county_fips", IntToStr(ParseInt(county_fips))>> >> \o proportions

\* result = {'county_fips': county_fips, **proportions}
NormalResult(county_fips, proportions) == << <<"county_fips", county_fips>> >> \o proportions

\* The record of the except branch with the message kept in a field of its own.
FailedCountyResult_with_error(county_fips) ==
    << <<"county_fips", county_fips>>,
       <<"forest_proportion", FZero>>,
       <<"agriculture_proportion", FZero>>,
       <<"developed_proportion", FZero>>,
       <<"wetland_proportion", FZero>>,
       <<"other_proportion", FZero>>,
       <<"error", "message">> >>

\* result = {'county_fips': county_fips, 'forest_proportion': 0.0, ...} of the
\* except branch.
FailedCountyResult(county_fips) ==
    << <<"county_fips", county_fips>>,
       <<"forest_proportion", FZero>>,
       <<"agriculture_proportion", FZero>>,
       <<"developed_proportion", FZero>>,
       <<"wetland_proportion", FZero>>,
       <<"other_proportion", FZero>> >>

\* ------------------------------------------------------------------ the table of results

\* pd.DataFrame(results): the columns are the records' keys in order of first
\* appearance, one row per record; a key a record lacks reads "NaN".
RECURSIVE AddKeys(_, _, _)
AddKeys(cols, keys, i) ==
    IF i > Len(keys) THEN cols
    ELSE AddKeys(IF \E j \in 1..Len(cols) : cols[j] = keys[i] THEN cols
                 ELSE Append(cols, keys[i]), keys, i + 1)

RECURSIVE ColumnsOf(_, _, _)
ColumnsOf(records, i, cols) ==
    IF i > Len(records) THEN cols
    ELSE ColumnsOf(records, i + 1, AddKeys(cols, DictKeys(records[i]), 1))

SeqToSet(q) == {q[i] : i \in 1..Len(q)}

DataFrame(records) ==
    LET columns == ColumnsOf(records, 1, <<>>)
    IN  [columns |-> columns,
         rows |-> [i \in 1..Len(records) |->
                     [c \in SeqToSet(columns) |->
                        IF DictHas(records[i], c) THEN DictGet(records[i], c) ELSE "NaN"]]]

proportion_cols ==
    <<"forest_proportion", "agriculture_proportion", "developed_proportion",
      "wetland_proportion", "other_proportion">>

\* results_df[proportion_cols] raises KeyError when a column is missing.
HasColumns(df, cols) == SeqToSet(cols) \subseteq SeqToSet(df.columns)

\* results_df[proportion_cols].sum(axis=1) of one row: the columns added left to right.
RECURSIVE RowSumFrom(_, _, _, _)
RowSumFrom(row, cols, i, acc) ==
    IF i > Len(cols) THEN acc
    ELSE RowSumFrom(row, cols, i + 1, FAdd(acc, row[cols[i]]))

RowSum(row, cols) == RowSumFrom(row, cols, 1, FZero)

\* The literals 0.99 and 1.01.
LowerBound == FloatOfRatio(99, 100)
UpperBound == FloatOfRatio(101, 100)

\* The bounds check with the zero-sum record exempted.
IsInvalid_zero_exempted(total_proportion) ==
    /\ total_proportion # FZero
    /\ FLess(total_proportion, LowerBound) \/ FGreater(total_proportion, UpperBound)

\* (results_df['total_proportion'] < 0.99) | (results_df['total_proportion'] > 1.01)
IsInvalid(total_proportion) ==
    FLess(total_proportion, LowerBound) \/ FGreater(total_proportion, UpperBound)

\* results_df['total_proportion'] = ...: a new last column.
WithColumn(df, name, values) ==
    [columns |-> Append(df.columns, name),
     rows |-> [i \in 1..Len(df.rows) |->
                 [c \in SeqToSet(df.columns) \cup {name} |->
                    IF c = name THEN values[i] ELSE df.rows[i][c]]]]

\* results_df.drop('total_proportion', axis=1)
DropColumn(df, name) ==
    LET columns == SelectSeq(df.columns, LAMBDA c : c # name)
    IN  [columns |-> columns,
         rows |-> [i \in 1..Len(df.rows) |->
                     [c \in SeqToSet(columns) |-> df.rows[i][c]]]]

\* results_df[(total_proportion < 0.99) | (total_proportion > 1.01)]: the rows the
\* mask keeps, in order.
InvalidRows(df) ==
    [columns |-> df.columns,
     rows |-> SelectSeq(df.rows, LAMBDA r : IsInvalid(r["total_proportion"]))]

\* results_df.to_csv(path, index=False): a header line, then one line per row with
\* the cells in column order (a str cell is written as it is, a float cell by
\* its shortest repr, which names the float).
to_csv(df) ==
    [header |-> df.columns,
     lines |-> [i \in 1..Len(df.rows) |->
                  [j \in 1..Len(df.columns) |-> df.rows[i][df.columns[j]]]]]

\* ------------------------------------------------------------------ reading the table

\* pd.read_csv(path) of the file written: the county_fips column, all digits,
\* is read as integers; a float cell is read back as the float its repr names.
read_csv(file) ==
    [columns |-> file.header,
     rows |-> [i \in 1..Len(file.lines) |->
                 [c \in SeqToSet(file.header) |->
                     LET j == CHOOSE k \in 1..Len(file.header) : file.header[k] = c
                     IN  IF c = "county_fips" THEN ParseInt(file.lines[i][j])
                         ELSE file.lines[i][j]]]]

\* landcover_df['county_fips'].astype(str).str.zfill(5)
PaddedFips(df) == [i \in 1..Len(df.rows) |-> zfill(IntToStr(df.rows[i]["county_fips"]), 5)]

\* ------------------------------------------------------------------ the scripts

\* results.iloc[:, 1:].sum(axis=1) of one row: every column but the first.
IlocSum(df, row) == RowSum(row, SubSeq(df.columns, 2, Len(df.columns)))

\* verify_results.py: len(results[results.iloc[:, 1:].sum(axis=1) > 0])
VerifyWithData(df) ==
    LET Keep(r) == FGreater(IlocSum(df, r), FZero)
    IN  Len(SelectSeq(df.rows, Keep))

\* verify_results.py: len(results[results.iloc[:, 1:].sum(axis=1) == 0])
VerifyNoData(df) ==
    LET Keep(r) == IlocSum(df, r) = FZero
    IN  Len(SelectSeq(df.rows, Keep))

\* analyze_landcover.py: df_valid = df[(df[[five columns]].sum(axis=1) > 0)]
AnalyzeValid(df) ==
    [columns |-> df.columns,
     rows |-> SelectSeq(df.rows, LAMBDA r : FGreater(RowSum(r, proportion_cols), FZero))]

\* analyze_landcover.py: len(df) - len(df_valid)
AnalyzeNoData(df) == Len(df.rows) - Len(AnalyzeValid(df).rows)

\* x >= y and x <= y of two floats.
FGreaterEq(x, y) == LET e == FMaxExp(x, y) IN FNum(x, e) >= FNum(y, e)
FLessEq(x, y) == FGreaterEq(y, x)

\* verify_results.py: results['total_proportion'] = results[proportion_cols].sum(axis=1)
VerifyTotals(df) == [i \in 1..Len(df.rows) |-> RowSum(df.rows[i], proportion_cols)]

\* The mask with the bounds themselves left out.
VerifyIsValid_strict(total_proportion) ==
    FGreater(total_proportion, LowerBound) /\ FLess(total_proportion, UpperBound)

\* verify_results.py:
\* (results['total_proportion'] >= 0.99) & (results['total_proportion'] <= 1.01)
VerifyIsValid(total_proportion) ==
    FGreaterEq(total_proportion, LowerBound) /\ FLessEq(total_proportion, UpperBound)

\* verify_results.py: valid_counties = results[mask]
VerifyValidCounties(df) ==
    LET with_total == WithColumn(df, "total_proportion", VerifyTotals(df))
    IN  [columns |-> with_total.columns,
         rows |-> SelectSeq(with_total.rows,
                            LAMBDA r : VerifyIsValid(r["total_proportion"]))]

\* ------------------------------------------------------------------ inputs

\* A county identifier (the GEOID field) is the sequence of its five characters.

\* Raw raster values of the enumerated polygons: one code of each real class of
\* the table, with 0..MaxCount pixels each, and the nodata code and a code the
\* table does not hold, present or not.
RealSampleCodes == {41, 82, 21, 90, 11}
OtherSampleCodes == {250, 999}

\* A bag of pixels: raw value -> number of pixels (> 0).
BagOf(f) == [v \in {w \in DOMAIN f : f[w] > 0} |-> f[v]]

EnumeratedPixels ==
    { BagOf(f @@ g) : f \in [RealSampleCodes -> 0..MaxCount],
                      g \in [OtherSampleCodes -> {0, 1}] }

\* The tallies the specification names.
ScenarioPixels ==
    { (41 :> 120) @@ (82 :> 30) @@ (21 :> 50) @@ (0 :> 7) @@ (250 :> 10),
      (250 :> 500),
      (41 :> 100) @@ (999 :> 50) }

\* A polygon: its identifier and what sampling it gives (zonal_stats raises, or
\* the pixels inside it).
Sampled(g, px) == [GEOID |-> g, raises |-> FALSE, pixels |-> px]
Failing(g) == [GEOID |-> g, raises |-> TRUE, pixels |-> <<>>]

\* The polygons of the longer batches: one with excluded pixels only, one with
\* nodata pixels only, three with valid pixels (two of them with the same pixels
\* under different identifiers), and two for which sampling raises.
BatchPolygons ==
    { Sampled(<<0, 1, 0, 0, 1>>, (0 :> 3)),
      Sampled(<<0, 1, 0, 0, 1>>, (250 :> 2)),
      Sampled(<<0, 1, 0, 0, 1>>,
              (0 :> 2) @@ (41 :> 1) @@ (42 :> 1) @@ (82 :> 1) @@ (999 :> 1)),
      Failing(<<0, 1, 0, 0, 1>>),
      Sampled(<<4, 8, 2, 0, 1>>,
              (0 :> 2) @@ (41 :> 1) @@ (42 :> 1) @@ (82 :> 1) @@ (999 :> 1)),
      Sampled(<<4, 8, 2, 0, 1>>, (21 :> 2) @@ (90 :> 1) @@ (250 :> 1)),
      Failing(<<4, 8, 2, 0, 1>>) }

\* The single polygons: every enumerated or named tally, and a failing one.
SinglePolygons ==
    { Sampled(<<0, 1, 0, 0, 1>>, px) : px \in EnumeratedPixels \cup ScenarioPixels }
    \cup { Failing(<<0, 1, 0, 0, 1>>) }

RECURSIVE SeqsUpTo(_, _)
SeqsUpTo(S, n) ==
    IF n = 0 THEN { <<>> }
    ELSE LET shorter == SeqsUpTo(S, n - 1)
         IN  shorter \cup { Append(q, x) : q \in {r \in shorter : Len(r) = n - 1}, x \in S }

\* The shapefiles the runs start from: batches of up to MaxCounties of the batch
\* polygons, and every single polygon.
InputBatches ==
    SeqsUpTo(BatchPolygons, MaxCounties) \cup { <<c>> : c \in SinglePolygons }

\* ------------------------------------------------------------------ state

VARIABLES
    pc,               \* where process_county_landcover() is
    sources,          \* whether the shapefile and the raster can be opened
    counties,         \* the rows of the shapefile, in file order
    idx,              \* the position of the loop in counties (1-based)
    county_fips,      \* locals of the loop body, as last assigned
    pixel_counts,
    class_counts,
    result,
    results,          \* the list of records
    log,              \* the warning and error lines printed
    results_df,       \* the DataFrame
    invalid_counties, \* the flagged rows
    csv,              \* the file written
    counties_with_data \* the "Counties with data" figure printed

vars == <<pc, sources, counties, idx, county_fips, pixel_counts, class_counts, result,
          results, log, results_df, invalid_counties, csv, counties_with_data>>

None == "None"

Init ==
    /\ pc = "start"
    /\ sources \in {"ok", "no_shapefile", "no_raster"}
    /\ counties \in InputBatches
    /\ idx = 0
    /\ county_fips = None
    /\ pixel_counts = None
    /\ class_counts = None
    /\ result = None
    /\ results = None
    /\ log = <<>>
    /\ results_df = None
    /\ invalid_counties = None
    /\ csv = None
    /\ counties_with_data = None

LogLine(kind, fips, detail) == [kind |-> kind, fips |-> fips, detail |-> detail]

\* ------------------------------------------------------------------ loading

\* A load failure caught and the run going on into the loop.
LoadFailure_degenerate_records ==
    /\ pc = "start"
    /\ sources # "ok"
    /\ pc' = "loop"
    /\ idx' = 1
    /\ results' = <<>>
    /\ UNCHANGED <<sources, counties, county_fips, pixel_counts, class_counts, result, log,
                   results_df, invalid_counties, csv, counties_with_data>>

\* gpd.read_file or rasterio.open raises: the exception leaves the function.
LoadFailure ==
    /\ pc = "start"
    /\ sources # "ok"
    /\ pc' = "aborted"
    /\ UNCHANGED <<sources, counties, idx, county_fips, pixel_counts, class_counts, result,
                   results, log, results_df, invalid_counties, csv, counties_with_data>>

\* Both sources load; to_crs keeps the rows, their order and their GEOID.
LoadSources ==
    /\ pc = "start"
    /\ sources = "ok"
    /\ pc' = "loop"
    /\ idx' = 1
    /\ results' = <<>>
    /\ UNCHANGED <<sources, counties, county_fips, pixel_counts, class_counts, result, log,
                   results_df, invalid_counties, csv, counties_with_data>>

\* ------------------------------------------------------------------ the loop

InLoop == pc = "loop" /\ idx <= Len(counties)

\* The warning branch ending in `continue`: no record for the county.
ProcessNoRasterData_continue ==
    /\ pc = "loop" /\ idx <= Len(counties)
    /\ ~counties[idx].raises
    /\ LET fips == counties[idx].GEOID
           stats == zonal_stats(counties[idx].pixels)
       IN  /\ ListIsEmpty(stats) \/ MapIsEmpty(stats[1])
           /\ county_fips' = fips
           /\ log' = Append(log, LogLine("Warning: No raster data found for county", fips, None))
    /\ idx' = idx + 1
    /\ UNCHANGED <<pc, sources, counties, pixel_counts, class_counts, result, results,
                   results_df, invalid_counties, csv, counties_with_data>>

\* zonal_stats returns nothing for the county: the warning branch.
ProcessNoRasterData ==
    /\ InLoop
    /\ ~counties[idx].raises
    /\ LET fips == counties[idx].GEOID
           stats == zonal_stats(counties[idx].pixels)
       IN  /\ ListIsEmpty(stats) \/ MapIsEmpty(stats[1])
           /\ county_fips' = fips
           /\ log' = Append(log, LogLine("Warning: No raster data found for county", fips, None))
           /\ result' = NoRasterDataResult(fips)
           /\ results' = Append(results, result')
    /\ idx' = idx + 1
    /\ UNCHANGED <<pc, sources, counties, pixel_counts, class_counts, results_df,
                   invalid_counties, csv, counties_with_data>>

\* class_counts created once, before the loop: the counts of earlier counties
\* stay in it.
ProcessCounts_shared_counts ==
    /\ pc = "loop" /\ idx <= Len(counties)
    /\ ~counties[idx].raises
    /\ LET fips == counties[idx].GEOID
           stats == zonal_stats(counties[idx].pixels)
       IN  /\ ~(ListIsEmpty(stats) \/ MapIsEmpty(stats[1]))
           /\ county_fips' = fips
           /\ pixel_counts' = stats[1]
           /\ class_counts' =
                 FoldItems(pixel_counts', DOMAIN pixel_counts',
                           IF \E i \in 1..(idx - 1) :
                                 /\ ~counties[i].raises
                                 /\ ~MapIsEmpty(zonal_stats(counties[i].pixels)[1])
                           THEN class_counts
                           ELSE EmptyClassCounts)
           /\ result' = NormalResult(fips, calculate_proportions(class_counts'))
           /\ results' = Append(results, result')
    /\ idx' = idx + 1
    /\ UNCHANGED <<pc, sources, counties, log, results_df, invalid_counties, csv,
                   counties_with_data>>

\* The normal branch with a warning printed for a tally of unknown codes only.
ProcessCounts_warns_unknown ==
    /\ pc = "loop" /\ idx <= Len(counties)
    /\ ~counties[idx].raises
    /\ LET fips == counties[idx].GEOID
           stats == zonal_stats(counties[idx].pixels)
       IN  /\ ~(ListIsEmpty(stats) \/ MapIsEmpty(stats[1]))
           /\ county_fips' = fips
           /\ pixel_counts' = stats[1]
           /\ result' = NormalResult(fips, calculate_proportions(FoldPixelCounts(pixel_counts')))
           /\ class_counts' = ClassCountsAfterCall(FoldPixelCounts(pixel_counts'))
           /\ results' = Append(results, result')
           /\ log' = IF (DOMAIN stats[1]) \cap (DOMAIN NLCD_RECLASSIFICATION) = {}
                     THEN Append(log, LogLine("Warning: No raster data found for county",
                                              fips, None))
                     ELSE log
    /\ idx' = idx + 1
    /\ UNCHANGED <<pc, sources, counties, results_df, invalid_counties, csv,
                   counties_with_data>>

\* zonal_stats returns counts: fold, normalise, append.
ProcessCounts ==
    /\ InLoop
    /\ ~counties[idx].raises
    /\ LET fips == counties[idx].GEOID
           stats == zonal_stats(counties[idx].pixels)
       IN  /\ ~(ListIsEmpty(stats) \/ MapIsEmpty(stats[1]))
           /\ county_fips' = fips
           /\ pixel_counts' = stats[1]
           /\ result' = NormalResult(fips, calculate_proportions(FoldPixelCounts(pixel_counts')))
           /\ class_counts' = ClassCountsAfterCall(FoldPixelCounts(pixel_counts'))
           /\ results' = Append(results, result')
    /\ idx' = idx + 1
    /\ UNCHANGED <<pc, sources, counties, log, results_df, invalid_counties, csv,
                   counties_with_data>>

\* The except clause around the whole loop: the failing county gets its record
\* and the loop is left.
ProcessException_leaves_loop ==
    /\ pc = "loop" /\ idx <= Len(counties)
    /\ counties[idx].raises
    /\ LET fips == counties[idx].GEOID
       IN  /\ county_fips' = fips
           /\ log' = Append(log, LogLine("Error processing county", fips, None))
           /\ result' = FailedCountyResult(fips)
           /\ results' = Append(results, result')
    /\ idx' = Len(counties) + 1
    /\ UNCHANGED <<pc, sources, counties, pixel_counts, class_counts, results_df,
                   invalid_counties, csv, counties_with_data>>

\* The except branch with `results = [result]` for `results.append(result)`.
ProcessException_resets_results ==
    /\ pc = "loop" /\ idx <= Len(counties)
    /\ counties[idx].raises
    /\ LET fips == counties[idx].GEOID
       IN  /\ county_fips' = fips
           /\ log' = Append(log, LogLine("Error processing county", fips, None))
           /\ result' = FailedCountyResult(fips)
           /\ results' = <<result'>>
    /\ idx' = idx + 1
    /\ UNCHANGED <<pc, sources, counties, pixel_counts, class_counts, results_df,
                   invalid_counties, csv, counties_with_data>>

\* The except branch logging the error and raising it again.
ProcessException_reraises ==
    /\ pc = "loop" /\ idx <= Len(counties)
    /\ counties[idx].raises
    /\ LET fips == counties[idx].GEOID
       IN  /\ county_fips' = fips
           /\ log' = Append(log, LogLine("Error processing county", fips, None))
    /\ pc' = "crashed"
    /\ UNCHANGED <<sources, counties, idx, pixel_counts, class_counts, result, results,
                   results_df, invalid_counties, csv, counties_with_data>>

\* zonal_stats raises: the except branch.
ProcessException ==
    /\ InLoop
    /\ counties[idx].raises
    /\ LET fips == counties[idx].GEOID
       IN  /\ county_fips' = fips
           /\ log' = Append(log, LogLine("Error processing county", fips, None))
           /\ result' = FailedCountyResult(fips)
           /\ results' = Append(results, result')
    /\ idx' = idx + 1
    /\ UNCHANGED <<pc, sources, counties, pixel_counts, class_counts, results_df,
                   invalid_counties, csv, counties_with_data>>

\* ------------------------------------------------------------------ validation

LoopDone == pc = "loop" /\ idx > Len(counties)

Head5(q) == SubSeq(q, 1, IF Len(q) < 5 THEN Len(q) ELSE 5)

\* pd.DataFrame(results) of no record has no column: results_df[proportion_cols]
\* raises KeyError and the function is left.
ValidateKeyError ==
    /\ LoopDone
    /\ ~HasColumns(DataFrame(results), proportion_cols)
    /\ results_df' = DataFrame(results)
    /\ pc' = "crashed"
    /\ UNCHANGED <<sources, counties, idx, county_fips, pixel_counts, class_counts, result,
                   results, log, invalid_counties, csv, counties_with_data>>

\* The validation keeping only the rows it does not flag.
Validate_keeps_valid_only ==
    /\ pc = "loop" /\ idx > Len(counties)
    /\ HasColumns(DataFrame(results), proportion_cols)
    /\ LET df == DataFrame(results)
           totals == [i \in 1..Len(df.rows) |-> RowSum(df.rows[i], proportion_cols)]
           with_total == WithColumn(df, "total_proportion", totals)
       IN  /\ results_df' =
                 [columns |-> with_total.columns,
                  rows |-> SelectSeq(with_total.rows,
                                     LAMBDA r : ~IsInvalid(r["total_proportion"]))]
           /\ invalid_counties' = InvalidRows(with_total)
    /\ log' = IF Len(invalid_counties'.rows) > 0
              THEN Append(log,
                     LogLine("Warning: counties have proportions that don't sum to ~1.0",
                             [i \in 1..Len(Head5(invalid_counties'.rows)) |->
                                 invalid_counties'.rows[i]["county_fips"]],
                             Len(invalid_counties'.rows)))
              ELSE log
    /\ pc' = "validated"
    /\ UNCHANGED <<sources, counties, idx, county_fips, pixel_counts, class_counts, result,
                   results, csv, counties_with_data>>

Validate ==
    /\ LoopDone
    /\ HasColumns(DataFrame(results), proportion_cols)
    /\ LET df == DataFrame(results)
           totals == [i \in 1..Len(df.rows) |-> RowSum(df.rows[i], proportion_cols)]
       IN  results_df' = WithColumn(df, "total_proportion", totals)
    /\ invalid_counties' = InvalidRows(results_df')
    /\ log' = IF Len(invalid_counties'.rows) > 0
              THEN Append(log,
                     LogLine("Warning: counties have proportions that don't sum to ~1.0",
                             [i \in 1..Len(Head5(invalid_counties'.rows)) |->
                                 invalid_counties'.rows[i]["county_fips"]],
                             Len(invalid_counties'.rows)))
              ELSE log
    /\ pc' = "validated"
    /\ UNCHANGED <<sources, counties, idx, county_fips, pixel_counts, class_counts, result,
                   results, csv, counties_with_data>>

\* ------------------------------------------------------------------ saving

\* The count of the rows whose sum is >= 0.
CountWithData_nonnegative(df) ==
    Len(SelectSeq(df.rows, LAMBDA r : ~FLess(RowSum(r, proportion_cols), FZero)))

\* len(results_df[results_df[proportion_cols].sum(axis=1) > 0])
CountWithData(df) ==
    Len(SelectSeq(df.rows, LAMBDA r : FGreater(RowSum(r, proportion_cols), FZero)))

\* The helper column is dropped, the table is written and the summary printed.
Save ==
    /\ pc = "validated"
    /\ results_df' = DropColumn(results_df, "total_proportion")
    /\ csv' = to_csv(results_df')
    /\ counties_with_data' = CountWithData(results_df')
    /\ pc' = "saved"
    /\ UNCHANGED <<sources, counties, idx, county_fips, pixel_counts, class_counts, result,
                   results, log, invalid_counties>>

Next ==
    \/ LoadFailure
    \/ LoadSources
    \/ ProcessNoRasterData
    \/ ProcessCounts
    \/ ProcessException
    \/ ValidateKeyError
    \/ Validate
    \/ Save

Spec == Init /\ [][Next]_vars

\* ------------------------------------------------------------------ properties

RealClasses == {"forest", "agriculture", "developed", "wetland", "other"}

\* The last iteration took the normal branch: class_counts and result are those
\* of county idx - 1.
LastCounted ==
    /\ pc = "loop"
    /\ idx > 1
    /\ ~counties[idx - 1].raises
    /\ (DOMAIN counties[idx - 1].pixels) \ {0} # {}

LastPixels == counties[idx - 1].pixels

\* The five real-class counts of a tally, added up.
RealTotal(cc) ==
    cc["forest"] + cc["agriculture"] + cc["developed"] + cc["wetland"] + cc["other"]

Proportion(rec, class) ==
    CASE class = "forest" -> DictGet(rec, "forest_proportion")
      [] class = "agriculture" -> DictGet(rec, "agriculture_proportion")
      [] class = "developed" -> DictGet(rec, "developed_proportion")
      [] class = "wetland" -> DictGet(rec, "wetland_proportion")
      [] class = "other" -> DictGet(rec, "other_proportion")

\* The exact sum of the five proportions of a record, as a numerator over 2^ExactExp.
MaxOf(S) == CHOOSE x \in S : \A y \in S : y <= x
ExactExp(rec) == MaxOf({Proportion(rec, c).e : c \in RealClasses})
ExactNum(rec) ==
    LET e == ExactExp(rec)
    IN  FNum(Proportion(rec, "forest"), e) + FNum(Proportion(rec, "agriculture"), e)
        + FNum(Proportion(rec, "developed"), e) + FNum(Proportion(rec, "wetland"), e)
        + FNum(Proportion(rec, "other"), e)

\* 0.99 <= sum <= 1.01, in exact arithmetic.
SumNearOne(rec) ==
    /\ 100 * ExactNum(rec) >= 99 * Pow2(ExactExp(rec))
    /\ 100 * ExactNum(rec) <= 101 * Pow2(ExactExp(rec))

\* 0 <= x <= 1 for a float x.
InUnitInterval(x) == x.m >= 0 /\ x.m <= Pow2(x.e)

AllZero(rec) == \A c \in RealClasses : Proportion(rec, c) = FZero

\* C1: whenever the five real-class counts of a tally sum to total_valid > 0,
\* the five proportions calculate_proportions returns are each in [0, 1] and
\* their sum lies within [0.99, 1.01].
C1_ProportionsPartition ==
    (LastCounted /\ RealTotal(class_counts) > 0) =>
        /\ \A c \in RealClasses : InUnitInterval(Proportion(result, c))
        /\ SumNearOne(result)

\* A tally with pixels of all five real classes and of nodata has been normalised.
C1_Witness ==
    /\ LastCounted
    /\ \A c \in ClassSet : class_counts[c] > 0
    /\ \E c \in RealClasses : class_counts[c] # class_counts["forest"]

\* C2: whenever the five real-class counts are all zero, whatever the nodata
\* count is, the five proportions of the emitted record are exactly 0.0.
C2_ZeroValidGivesZeros ==
    (LastCounted /\ RealTotal(class_counts) = 0) => AllZero(result)

\* The all-nodata tally {250: 500} has been normalised.
C2_Witness ==
    /\ LastCounted
    /\ LastPixels = (250 :> 500)
    /\ class_counts["nodata"] = 500
    /\ RealTotal(class_counts) = 0

\* The pixels of a bag whose raw value the table maps into the classes C.
RECURSIVE PixelsIn(_, _, _)
PixelsIn(px, todo, C) ==
    IF todo = {} THEN 0
    ELSE LET v == SetMin(todo)
         IN  (IF v \in DOMAIN NLCD_RECLASSIFICATION /\ NLCD_RECLASSIFICATION[v] \in C
              THEN px[v] ELSE 0)
             + PixelsIn(px, todo \ {v}, C)

KnownPixels(px) == PixelsIn(px, DOMAIN px, ClassSet)

\* A raw tally without its entries of codes the table does not hold.
WithoutUnknown(tally) ==
    [v \in (DOMAIN tally) \cap (DOMAIN NLCD_RECLASSIFICATION) |-> tally[v]]

SixTotal(cc) == RealTotal(cc) + cc["nodata"]

HasUnknown(px) == \E v \in DOMAIN px : v # 0 /\ v \notin DOMAIN NLCD_RECLASSIFICATION

FOne == [m |-> Pow2(MantissaBits - 1), e |-> MantissaBits - 1]

\* C3: a raw code absent from the table increments none of the six class counts:
\* the six counts add up to the pixels of known codes, and the counts and the
\* proportions are those of the tally with its unknown entries removed;
\* {41: 100, 999: 50} gives total_valid = 100, forest = 1.0, the others 0.0.
C3_UnknownCodesDropped ==
    LastCounted =>
        /\ SixTotal(class_counts) = KnownPixels(LastPixels)
        /\ class_counts = FoldPixelCounts(WithoutUnknown(zonal_stats(LastPixels)[1]))
        /\ result = NormalResult(counties[idx - 1].GEOID,
                       calculate_proportions(
                          FoldPixelCounts(WithoutUnknown(zonal_stats(LastPixels)[1]))))
        /\ (LastPixels = (41 :> 100) @@ (999 :> 50)) =>
              /\ RealTotal(class_counts) = 100
              /\ class_counts["nodata"] = 0
              /\ Proportion(result, "forest") = FOne
              /\ \A c \in RealClasses \ {"forest"} : Proportion(result, c) = FZero

\* A tally with pixels of an unknown code beside pixels of real classes and of
\* nodata has been folded.
C3_Witness ==
    /\ LastCounted
    /\ HasUnknown(LastPixels)
    /\ RealTotal(class_counts) > 0
    /\ class_counts["nodata"] > 0

\* The record a polygon gets on its own: a function of the polygon alone.
RecordOf(county) ==
    IF county.raises THEN FailedCountyResult(county.GEOID)
    ELSE IF MapIsEmpty(zonal_stats(county.pixels)[1]) THEN NoRasterDataResult(county.GEOID)
    ELSE NormalResult(county.GEOID,
                      calculate_proportions(FoldPixelCounts(zonal_stats(county.pixels)[1])))

Raising == {i \in 1..Len(counties) : counties[i].raises}

\* The loop is over (the list of records is final).
AfterLoop == (pc = "loop" /\ idx > Len(counties)) \/ pc \in {"validated", "saved"}

\* C4: when sampling raises for exactly one polygon of a batch of N, the run
\* still emits N records, the failed polygon's record is the all-zero record
\* with its identifier, and every other polygon's record is the one it gets
\* without the failure.
C4_FailureIsolated ==
    (AfterLoop /\ Cardinality(Raising) = 1) =>
        /\ Len(results) = Len(counties)
        /\ \A i \in 1..Len(counties) :
              IF i \in Raising
              THEN /\ DictGet(results[i], "county_fips") = counties[i].GEOID
                   /\ AllZero(results[i])
              ELSE results[i] = RecordOf(counties[i])

\* A batch of three whose middle polygon fails, between two polygons with valid pixels.
C4_Witness ==
    /\ AfterLoop
    /\ Len(counties) = 3
    /\ Raising = {2}
    /\ ~AllZero(results[1])
    /\ ~AllZero(results[3])

\* C5: after the loop has processed k polygons the list holds exactly k
\* records, the i-th carrying the identifier of the i-th input polygon, and the
\* rows of the table written are in input order, one per polygon.
C5_OrderPreserved ==
    /\ pc = "loop" => Len(results) = idx - 1
    /\ AfterLoop => Len(results) = Len(counties)
    /\ pc \in {"loop", "validated", "saved"} =>
          \A i \in 1..Len(results) :
             DictGet(results[i], "county_fips") = counties[i].GEOID
    /\ pc = "saved" =>
          /\ Len(csv.lines) = Len(counties)
          /\ \A i \in 1..Len(counties) : csv.lines[i][1] = counties[i].GEOID

\* A table was written for three polygons with different identifiers, one sampled
\* with valid pixels, one without raster data and one failing.
C5_Witness ==
    /\ pc = "saved"
    /\ Len(counties) = 3
    /\ \E i, j \in 1..3 : counties[i].GEOID # counties[j].GEOID
    /\ \E i \in 1..3 : counties[i].raises
    /\ \E i \in 1..3 : ~counties[i].raises /\ counties[i].pixels = (0 :> 3)
    /\ \E i \in 1..3 : ~AllZero(results[i])

\* x is a float nearest to n / d (0 <= n, 0 < d).
IsNearest(x, n, d) ==
    IF n = 0 THEN x = FZero
    ELSE /\ x.m >= Pow2(MantissaBits - 1)
         /\ x.m < Pow2(MantissaBits)
         /\ LET diff == x.m * d - n * Pow2(x.e)
            IN  2 * (IF diff < 0 THEN -diff ELSE diff) <= d

\* C6: when total_valid > 0, each real class's proportion is its count divided
\* by total_valid, the sum of the five real-class counts without nodata, with
\* nothing but the rounding of the division; {41: 120, 82: 30, 21: 50, 250: 10}
\* gives total_valid = 200 and 0.60, 0.15, 0.25, 0.0, 0.0.
C6_PlainRatios ==
    (LastCounted /\ RealTotal(class_counts) > 0) =>
        /\ \A c \in RealClasses :
              IsNearest(Proportion(result, c), class_counts[c], RealTotal(class_counts))
        /\ (WithoutUnknown(zonal_stats(LastPixels)[1])
              = (41 :> 120) @@ (82 :> 30) @@ (21 :> 50) @@ (250 :> 10)) =>
              /\ RealTotal(class_counts) = 200
              /\ Proportion(result, "forest") = FloatOfRatio(60, 100)
              /\ Proportion(result, "agriculture") = FloatOfRatio(15, 100)
              /\ Proportion(result, "developed") = FloatOfRatio(25, 100)
              /\ Proportion(result, "wetland") = FZero
              /\ Proportion(result, "other") = FZero

\* The tally {41: 120, 82: 30, 21: 50, 250: 10} has been normalised.
C6_Witness ==
    /\ LastCounted
    /\ zonal_stats(LastPixels)[1] = (41 :> 120) @@ (82 :> 30) @@ (21 :> 50) @@ (250 :> 10)
    /\ class_counts["nodata"] = 10
    /\ Proportion(result, "forest") # FZero

\* C7: two polygons of a run with the same identifier and the same sampling
\* outcome get identical records: the record depends on nothing else.
C7_Deterministic ==
    pc \in {"loop", "validated", "saved"} =>
        \A i, j \in 1..Len(results) :
           counties[i] = counties[j] => results[i] = results[j]

\* The same polygon, with valid pixels, was aggregated a second time after a
\* different polygon with valid pixels.
C7_Witness ==
    /\ AfterLoop
    /\ Len(counties) = 3
    /\ counties[2] = counties[3]
    /\ counties[1].pixels # counties[2].pixels
    /\ ~AllZero(results[1])
    /\ ~AllZero(results[3])

\* Row r of a DataFrame carries the fields of record rec.
RowOf(r, rec) == \A k \in 1..Len(rec) : r[rec[k][1]] = rec[k][2]

\* The validator flagged record i.
Flagged(i) == \E j \in 1..Len(invalid_counties.rows) : RowOf(invalid_counties.rows[j], results[i])

\* Polygon i was sampled with at least one pixel of a real class.
HasValidPixels(i) ==
    /\ ~counties[i].raises
    /\ PixelsIn(counties[i].pixels, DOMAIN counties[i].pixels, RealClasses) > 0

\* C8: the validator flags a record exactly when the sum of its five proportions
\* is below 0.99 or above 1.01; every all-zero record is flagged, no record of a
\* tally with total_valid > 0 is.
C8_ValidatorFlags ==
    pc \in {"validated", "saved"} =>
        /\ \A i \in 1..Len(results) :
              /\ Flagged(i) <=> ~SumNearOne(results[i])
              /\ AllZero(results[i]) => Flagged(i)
              /\ HasValidPixels(i) => ~Flagged(i)
        /\ Len(invalid_counties.rows)
              = Cardinality({i \in 1..Len(results) : ~SumNearOne(results[i])})

\* The validator ran over an all-zero record, which it flagged, and over a record
\* of valid pixels whose proportions do not add up to exactly 1, which it did not.
C8_Witness ==
    /\ pc = "validated"
    /\ \E i \in 1..Len(results) : AllZero(results[i]) /\ Flagged(i)
    /\ \E i \in 1..Len(results) :
          /\ HasValidPixels(i)
          /\ ExactNum(results[i]) # Pow2(ExactExp(results[i]))
          /\ ~Flagged(i)

RecordFields ==
    <<"county_fips", "forest_proportion", "agriculture_proportion",
      "developed_proportion", "wetland_proportion", "other_proportion">>

\* C9: the validation changes nothing of the output: the table written has the
\* rows of the list of records, in its order, with the same identifier and the
\* same five proportions, whether or not a record was flagged, and has no
\* total_proportion column.
C9_ValidationOnlyDiagnostic ==
    /\ pc \in {"validated", "saved"} =>
          /\ Len(results_df.rows) = Len(results)
          /\ \A i \in 1..Len(results) : RowOf(results_df.rows[i], results[i])
    /\ pc = "saved" =>
          /\ \A j \in 1..Len(csv.header) : csv.header[j] # "total_proportion"
          /\ \A j \in 1..Len(results_df.columns) : results_df.columns[j] # "total_proportion"
          /\ Len(csv.lines) = Len(results)
          /\ \A i \in 1..Len(results) :
                /\ Len(csv.lines[i]) = Len(results[i])
                /\ \A k \in 1..Len(results[i]) :
                      \E j \in 1..Len(csv.header) :
                         /\ csv.header[j] = results[i][k][1]
                         /\ csv.lines[i][j] = results[i][k][2]

\* A table was written after the validator flagged some records and not others.
C9_Witness ==
    /\ pc = "saved"
    /\ Len(results) = 3
    /\ Len(invalid_counties.rows) > 0
    /\ Len(invalid_counties.rows) < Len(results)
    /\ ~Flagged(2)

\* C10: every record, of any of the three branches, has exactly the six fields
\* county_fips, forest_proportion, agriculture_proportion, developed_proportion,
\* wetland_proportion, other_proportion in this order, and these are the columns
\* of the table written, in this order.
C10_SixFieldsInOrder ==
    /\ pc \in {"loop", "validated", "saved"} =>
          \A i \in 1..Len(results) : DictKeys(results[i]) = RecordFields
    /\ pc = "saved" =>
          /\ csv.header = RecordFields
          /\ \A i \in 1..Len(csv.lines) : Len(csv.lines[i]) = Len(RecordFields)

\* A table was written from records of all three branches.
C10_Witness ==
    /\ pc = "saved"
    /\ \E i \in 1..Len(counties) : counties[i].raises
    /\ \E i \in 1..Len(counties) :
          ~counties[i].raises /\ MapIsEmpty(zonal_stats(counties[i].pixels)[1])
    /\ \E i \in 1..Len(counties) :
          ~counties[i].raises /\ ~MapIsEmpty(zonal_stats(counties[i].pixels)[1])

\* Sampling gives no pixel of a value other than 0 for the polygon.
SamplingEmpty(county) == ~county.raises /\ (DOMAIN county.pixels) \ {0} = {}

\* C11: for the polygon whose sampling returns an empty result or raises, the
\* iteration appends exactly one record, with the polygon's identifier and all
\* five proportions 0.0, prints one line naming that identifier (the warning for
\* the empty result, the error for the exception), and goes on to the next
\* polygon: no exception leaves the iteration.
C11_PerPolygonRecovery ==
    [][ (InLoop /\ (counties[idx].raises \/ SamplingEmpty(counties[idx]))) =>
           /\ pc' = "loop"
           /\ idx' = idx + 1
           /\ Len(results') = Len(results) + 1
           /\ SubSeq(results', 1, Len(results)) = results
           /\ DictGet(results'[Len(results')], "county_fips") = counties[idx].GEOID
           /\ AllZero(results'[Len(results')])
           /\ Len(log') = Len(log) + 1
           /\ SubSeq(log', 1, Len(log)) = log
           /\ log'[Len(log')].fips = counties[idx].GEOID
           /\ log'[Len(log')].kind = IF counties[idx].raises
                                     THEN "Error processing county"
                                     ELSE "Warning: No raster data found for county"
      ]_vars

\* A raising polygon and one with an empty result were processed and the loop
\* is at a third.
C11_Witness ==
    /\ InLoop
    /\ idx = 3
    /\ counties[1].raises
    /\ SamplingEmpty(counties[2])
    /\ Len(results) = 2
    /\ Len(log) = 2
    /\ AllZero(results[1]) /\ AllZero(results[2])

\* Sampling gives pixels for the polygon, none of them of a real class
\* (total_valid = 0).
ZeroValid(county) ==
    /\ ~county.raises
    /\ (DOMAIN county.pixels) \ {0} # {}
    /\ PixelsIn(county.pixels, (DOMAIN county.pixels) \ {0}, RealClasses) = 0

\* C12: for the same identifier, the record of a polygon whose tally holds no
\* pixel of a real class, the record of a polygon whose sampling is empty and
\* the record of a polygon whose sampling raises are one and the same record:
\* the identifier followed by five 0.0.
C12_DegenerateCollapse ==
    pc \in {"loop", "validated", "saved"} =>
       \A i \in 1..Len(results) : \A j \in 1..Len(results) :
          ( /\ counties[i].GEOID = counties[j].GEOID
            /\ ZeroValid(counties[i]) \/ SamplingEmpty(counties[i]) \/ counties[i].raises
            /\ ZeroValid(counties[j]) \/ SamplingEmpty(counties[j]) \/ counties[j].raises )
          => /\ results[i] = results[j]
             /\ DictGet(results[i], "county_fips") = counties[i].GEOID
             /\ AllZero(results[i])

\* One identifier went through the normal branch with a tally of nodata only,
\* through the empty result and through the exception.
C12_Witness ==
    /\ pc = "loop"
    /\ Len(results) = 3
    /\ \E i, j, k \in 1..3 :
          /\ ZeroValid(counties[i]) /\ 250 \in DOMAIN counties[i].pixels
          /\ SamplingEmpty(counties[j])
          /\ counties[k].raises
          /\ counties[i].GEOID = counties[j].GEOID
          /\ counties[j].GEOID = counties[k].GEOID

\* C13: NLCD_RECLASSIFICATION maps every code it holds to one of the six
\* classes, several codes to a class; each of the five real classes is the image
\* of at least one code; 250 is the only code mapped to nodata; and a code the
\* table does not hold is found to be unknown by the lookup of the fold: it
\* adds to no count, while a code the table holds adds to the count of its class.
C13_TableTotalManyToOne ==
    /\ Cardinality(ClassSet) = 6
    /\ ClassSet = RealClasses \cup {"nodata"}
    /\ \A v \in DOMAIN NLCD_RECLASSIFICATION : NLCD_RECLASSIFICATION[v] \in ClassSet
    /\ Cardinality(DOMAIN NLCD_RECLASSIFICATION) > Cardinality(ClassSet)
    /\ \A c \in RealClasses : \E v \in DOMAIN NLCD_RECLASSIFICATION : NLCD_RECLASSIFICATION[v] = c
    /\ {v \in DOMAIN NLCD_RECLASSIFICATION : NLCD_RECLASSIFICATION[v] = "nodata"} = {250}
    /\ LastCounted =>
          /\ \A v \in DOMAIN pixel_counts :
                v \in DOMAIN NLCD_RECLASSIFICATION =>
                   class_counts[NLCD_RECLASSIFICATION[v]] >= pixel_counts[v]
          /\ SixTotal(class_counts) =
                PixelsIn(pixel_counts,
                         (DOMAIN pixel_counts) \cap (DOMAIN NLCD_RECLASSIFICATION), ClassSet)

\* The fold looked up a code of every one of the six classes and a code the
\* table does not hold.
C13_Witness ==
    /\ LastCounted
    /\ \A c \in ClassSet : \E v \in DOMAIN pixel_counts :
          v \in DOMAIN NLCD_RECLASSIFICATION /\ NLCD_RECLASSIFICATION[v] = c
    /\ \E v \in DOMAIN pixel_counts : v \notin DOMAIN NLCD_RECLASSIFICATION
    /\ \A c \in ClassSet : class_counts[c] > 0

\* The counts code 250 is given in the variants of a raw tally (0: no entry).
NodataVariants == {0, 7}

\* A raw tally with the count of code 250 set to k, the entry removed for k = 0.
WithNodataCount(tally, k) ==
    IF k = 0 THEN [v \in (DOMAIN tally) \ {250} |-> tally[v]]
    ELSE [v \in (DOMAIN tally) \cup {250} |-> IF v = 250 THEN k ELSE tally[v]]

\* C14: the pixels of code 250 are counted into the nodata entry of the tally
\* and are no part of the denominator, which is the sum of the five real
\* counts; the five proportions of the record are those of the same raw tally
\* with another count of code 250, or with the entry of 250 added or removed.
C14_NodataInvariance ==
    LastCounted =>
       /\ class_counts["nodata"] =
             (IF 250 \in DOMAIN pixel_counts THEN pixel_counts[250] ELSE 0)
       /\ TotalValidPixels(class_counts) = RealTotal(class_counts)
       /\ \A k \in NodataVariants :
             SubSeq(result, 2, 6) =
                calculate_proportions(FoldPixelCounts(WithNodataCount(pixel_counts, k)))

\* A tally with pixels of real classes and pixels of code 250 was normalised.
C14_Witness ==
    /\ LastCounted
    /\ 250 \in DOMAIN pixel_counts
    /\ class_counts["nodata"] = 10
    /\ RealTotal(class_counts) = 200
    /\ Proportion(result, "forest") = FloatOfRatio(3, 5)

\* The numbers of 0-valued pixels in the variants of a polygon (0: none).
ZeroVariants == {0, 7}

\* A bag of pixels with k pixels of value 0.
WithZeroPixels(px, k) ==
    IF k = 0 THEN [v \in (DOMAIN px) \ {0} |-> px[v]]
    ELSE [v \in (DOMAIN px) \cup {0} |-> IF v = 0 THEN k ELSE px[v]]

\* C15: the raster value 0 is excluded from sampling: the raw tally has no
\* entry for 0, the six counts add up to the number of the polygon's pixels of
\* a value other than 0 that the table holds, and the raw tally, the six counts
\* (those of the fold and those of reclassify_array) and the five proportions
\* are the same for the polygon with another number of 0-valued pixels, or
\* with none.
C15_ZeroExcluded ==
    LastCounted =>
       /\ 0 \notin DOMAIN pixel_counts
       /\ SixTotal(class_counts) = PixelsIn(LastPixels, (DOMAIN LastPixels) \ {0}, ClassSet)
       /\ \A k \in ZeroVariants :
             /\ zonal_stats(WithZeroPixels(LastPixels, k))[1] = pixel_counts
             /\ reclassify_array(WithZeroPixels(LastPixels, k), NLCD_RECLASSIFICATION)
                   = class_counts
             /\ calculate_proportions(
                   reclassify_array(WithZeroPixels(LastPixels, k), NLCD_RECLASSIFICATION))
                   = SubSeq(result, 2, 6)

\* A polygon with 0-valued pixels and pixels of real classes was sampled and
\* folded.
C15_Witness ==
    /\ LastCounted
    /\ 0 \in DOMAIN LastPixels
    /\ LastPixels[0] = 7
    /\ TotalValidPixels(class_counts) = 200

\* A str of five decimal digits.
IsFips5(text) ==
    /\ DOMAIN text = 1..5
    /\ \A k \in 1..5 : text[k] \in 0..9

\* C16: the county_fips of every record, of any of the three branches, is the
\* 5-character zero-padded identifier of its polygon; it is written as these
\* five characters to the table, and the scripts that read the table back get
\* the same five characters after padding the number pandas reads.
C16_FipsFiveCharacters ==
    /\ pc \in {"loop", "validated", "saved"} =>
          \A i \in 1..Len(results) :
             /\ IsFips5(DictGet(results[i], "county_fips"))
             /\ DictGet(results[i], "county_fips") = counties[i].GEOID
    /\ pc = "saved" =>
          /\ Len(csv.lines) = Len(counties)
          /\ \A i \in 1..Len(csv.lines) :
                /\ IsFips5(csv.lines[i][1])
                /\ csv.lines[i][1] = counties[i].GEOID
          /\ PaddedFips(read_csv(csv)) = [i \in 1..Len(counties) |-> counties[i].GEOID]

\* A table was written with an identifier starting with 0 and one that does
\* not, from all three branches.
C16_Witness ==
    /\ pc = "saved"
    /\ Len(csv.lines) = 3
    /\ counties[1].raises
    /\ SamplingEmpty(counties[2])
    /\ ~counties[3].raises /\ ~SamplingEmpty(counties[3])
    /\ csv.lines[1][1] = <<0, 1, 0, 0, 1>>
    /\ csv.lines[3][1] = <<4, 8, 2, 0, 1>>
    /\ read_csv(csv).rows[1]["county_fips"] = 1001

\* C17: when the shapefile cannot be read or the raster cannot be opened, the
\* run ends there: no polygon is processed, no record and no line of log is
\* produced, no table is built or written and no summary is printed.
C17_LoadFailureAborts ==
    sources # "ok" =>
       /\ pc \in {"start", "aborted"}
       /\ idx = 0
       /\ Len(log) = 0
       /\ results = None
       /\ results_df = None
       /\ csv = None
       /\ counties_with_data = None

\* The run was left at the raster that cannot be opened, with polygons waiting.
C17_Witness ==
    /\ pc = "aborted"
    /\ sources = "no_raster"
    /\ Len(counties) = 3
    /\ results = None

\* C18: calculate_proportions leaves the class_counts it is given as they were:
\* after the call the dict has its six keys and each count is the number of
\* pixels the fold put there, whether the function returned the five 0.0 or
\* the five ratios.
C18_TallyNotMutated ==
    LastCounted =>
       /\ DOMAIN class_counts = ClassSet
       /\ \A c \in ClassSet :
             class_counts[c] = PixelsIn(pixel_counts, DOMAIN pixel_counts, {c})
       /\ class_counts = FoldPixelCounts(pixel_counts)
       /\ SubSeq(result, 2, 6) = calculate_proportions(class_counts)

\* calculate_proportions returned ratios for a tally with nodata pixels.
C18_Witness ==
    /\ LastCounted
    /\ class_counts["nodata"] = 1
    /\ class_counts["forest"] = 2
    /\ class_counts["wetland"] = 1
    /\ Proportion(result, "wetland") # FZero

\* C19: an iteration appends to the list of records the record of its own
\* polygon, which is a function of that polygon alone (its identifier and what
\* sampling gives for it), and changes or removes no record appended before;
\* the steps after the loop leave the list as it is.
C19_NonInterference ==
    [][ (pc = "loop" \/ pc = "validated") =>
           /\ Len(results') >= Len(results)
           /\ SubSeq(results', 1, Len(results)) = results
           /\ (idx' = idx) => (results' = results)
           /\ (idx' # idx) =>
                 (Len(results') = Len(results) + 1
                  /\ results'[Len(results')] = RecordOf(counties[idx]))
      ]_vars

\* Three polygons were processed, the first and the third with pixels of real
\* classes, the second raising; the first record is still the first polygon's.
C19_Witness ==
    /\ pc = "loop"
    /\ idx = 4
    /\ Len(results) = 3
    /\ ~counties[1].raises /\ ~counties[3].raises /\ counties[2].raises
    /\ counties[1].pixels # counties[3].pixels
    /\ ~AllZero(results[1]) /\ ~AllZero(results[3])
    /\ results[1] = RecordOf(counties[1])
    /\ results[1] # results[3]

\* The polygons sampled with at least one pixel of a real class, and the others.
WithRealPixels == {i \in 1..Len(counties) : HasValidPixels(i)}
Degenerate ==
    {i \in 1..Len(counties) :
        counties[i].raises \/ SamplingEmpty(counties[i]) \/ ZeroValid(counties[i])}

\* C20: the five proportions of a record sum to more than 0 exactly when the
\* polygon was sampled with at least one pixel of a real class; so the number of
\* "counties with data" the processor prints and the numbers verify_results.py
\* and analyze_landcover.py compute from the table are the number of polygons
\* with total_valid > 0, and their "no data" numbers are the number of
\* degenerate records.
C20_WithDataCounts ==
    /\ (pc = "loop" /\ idx > 1) => (ExactNum(result) > 0 <=> HasValidPixels(idx - 1))
    /\ pc = "saved" =>
          LET table == read_csv(csv)
          IN  /\ \A i \in 1..Len(results_df.rows) :
                    FGreater(RowSum(results_df.rows[i], proportion_cols), FZero)
                       <=> HasValidPixels(i)
              /\ Degenerate = (1..Len(counties)) \ WithRealPixels
              /\ counties_with_data = Cardinality(WithRealPixels)
              /\ VerifyWithData(table) = Cardinality(WithRealPixels)
              /\ VerifyNoData(table) = Cardinality(Degenerate)
              /\ Len(AnalyzeValid(table).rows) = Cardinality(WithRealPixels)
              /\ AnalyzeNoData(table) = Cardinality(Degenerate)

\* A table of three records was written: one polygon with pixels of real
\* classes, one with nodata pixels only, one for which sampling raised.
C20_Witness ==
    /\ pc = "saved"
    /\ Len(counties) = 3
    /\ counties_with_data = 1
    /\ \E i \in 1..3 : ZeroValid(counties[i])
    /\ \E i \in 1..3 : counties[i].raises
    /\ VerifyNoData(read_csv(csv)) = 2

\* Sampling gives pixels for the polygon, all of codes the table does not hold.
UnknownOnly(county) ==
    /\ ~county.raises
    /\ (DOMAIN county.pixels) \ {0} # {}
    /\ \A v \in (DOMAIN county.pixels) \ {0} : v \notin DOMAIN NLCD_RECLASSIFICATION

\* C21: a raw tally that is not empty and holds only codes the table does not
\* hold takes the normal branch: the six counts are all 0, the record appended
\* is the polygon's identifier with five 0.0, and no line is printed. An
\* iteration prints a line only when sampling gives nothing or raises.
C21_UnknownOnlySilent ==
    [][ (InLoop /\ ~counties[idx].raises /\ ~SamplingEmpty(counties[idx])) =>
           /\ log' = log
           /\ pixel_counts' = [v \in (DOMAIN counties[idx].pixels) \ {0} |->
                                  counties[idx].pixels[v]]
           /\ UnknownOnly(counties[idx]) =>
                 (/\ class_counts' = [c \in ClassSet |-> 0]
                  /\ Len(results') = Len(results) + 1
                  /\ DictGet(results'[Len(results')], "county_fips") = counties[idx].GEOID
                  /\ AllZero(results'[Len(results')])
                  /\ pc' = "loop")
      ]_vars

\* A polygon with pixels of an unknown code only went through the normal
\* branch: its raw tally and its counts are there, and nothing was printed.
C21_Witness ==
    /\ pc = "loop"
    /\ idx = 2
    /\ UnknownOnly(counties[1])
    /\ 999 \in DOMAIN pixel_counts
    /\ class_counts = EmptyClassCounts
    /\ AllZero(result)
    /\ log = <<>>

\* The sum of the counts a raw tally has for the codes of a set.
RECURSIVE SumOfCounts(_, _)
SumOfCounts(tally, codes) ==
    IF codes = {} THEN 0
    ELSE LET v == CHOOSE w \in codes : TRUE
         IN  tally[v] + SumOfCounts(tally, codes \ {v})

\* The codes of a raw tally that the table maps to a class.
CodesOf(tally, class) ==
    {v \in (DOMAIN tally) \cap (DOMAIN NLCD_RECLASSIFICATION) :
        NLCD_RECLASSIFICATION[v] = class}

\* C22: the folded tally has an entry for each of the six classes and no
\* other, no count is negative, the count of a class is the sum of the raw
\* counts of the codes the table maps to it, and the six counts add up to the
\* sum of the raw counts of the codes the table holds: no known pixel is lost
\* or counted twice.
C22_FoldConservation ==
    LastCounted =>
       /\ DOMAIN class_counts = {"forest", "agriculture", "developed", "wetland",
                                 "other", "nodata"}
       /\ \A c \in DOMAIN class_counts :
             /\ class_counts[c] >= 0
             /\ class_counts[c] = SumOfCounts(pixel_counts, CodesOf(pixel_counts, c))
       /\ RealTotal(class_counts) + class_counts["nodata"] =
             SumOfCounts(pixel_counts,
                         (DOMAIN pixel_counts) \cap (DOMAIN NLCD_RECLASSIFICATION))

\* A raw tally with two codes of one class, a nodata code and an unknown code
\* was folded.
C22_Witness ==
    /\ LastCounted
    /\ {41, 42, 82, 999} \subseteq DOMAIN pixel_counts
    /\ class_counts["forest"] = pixel_counts[41] + pixel_counts[42]
    /\ class_counts["forest"] = 2
    /\ class_counts["agriculture"] = 1

\* Totals at and next to the two bounds, 0.0 and 1.0.
BoundaryTotals ==
    {FZero, FOne, LowerBound, UpperBound,
     [m |-> LowerBound.m - 1, e |-> LowerBound.e],
     [m |-> LowerBound.m + 1, e |-> LowerBound.e],
     [m |-> UpperBound.m - 1, e |-> UpperBound.e],
     [m |-> UpperBound.m + 1, e |-> UpperBound.e]}

\* C23: a total is counted as valid by verify_results.py (0.99 <= total <=
\* 1.01) exactly when the processor does not flag it (total < 0.99 or total >
\* 1.01), for the totals 0.99, 1.01, 0.0, 1.0 and their neighbours and for the
\* total of every record of a table written: the record is in valid_counties
\* of the script exactly when it is not in invalid_counties of the processor,
\* and the two numbers add up to the number of records.
C23_ValidatorsPartition ==
    /\ \A t \in BoundaryTotals : VerifyIsValid(t) <=> ~IsInvalid(t)
    /\ pc = "saved" =>
          LET table == read_csv(csv)
              totals == VerifyTotals(table)
          IN  /\ \A i \in 1..Len(results) : VerifyIsValid(totals[i]) <=> ~Flagged(i)
              /\ Len(VerifyValidCounties(table).rows) + Len(invalid_counties.rows)
                    = Len(results)

\* A table was written and read back with a record the processor flagged (its
\* total is 0.0) and a record it did not, which the script counts as valid.
C23_Witness ==
    /\ pc = "saved"
    /\ Len(results) = 3
    /\ Len(invalid_counties.rows) = 2
    /\ Len(VerifyValidCounties(read_csv(csv)).rows) = 1
    /\ Flagged(1) /\ ~Flagged(3)
    /\ VerifyTotals(read_csv(csv))[1] = FZero

\* The last iteration sampled its polygon (sampling did not raise).
LastSampled == pc = "loop" /\ idx > 1 /\ ~counties[idx - 1].raises

\* C24: reclassify_array applied to the pixels of a polygon returns the six
\* counts the inline fold returns for the per-code counts of the pixels of a
\* value other than 0, for every polygon sampled, the ones with no pixel of a
\* value other than 0 included; where the loop folded the tally, these are
\* the counts it holds.
C24_ReclassifyEquivalent ==
    LastSampled =>
       /\ reclassify_array(LastPixels, NLCD_RECLASSIFICATION) =
             FoldPixelCounts([v \in (DOMAIN LastPixels) \ {0} |-> LastPixels[v]])
       /\ LastCounted =>
             /\ pixel_counts = [v \in (DOMAIN LastPixels) \ {0} |-> LastPixels[v]]
             /\ reclassify_array(LastPixels, NLCD_RECLASSIFICATION) = class_counts

\* Both folds ran over 0-valued pixels, pixels of three real classes and
\* nodata pixels, with more than one pixel to a code.
C24_Witness ==
    /\ LastSampled
    /\ {0, 41, 82, 21, 250} \subseteq DOMAIN LastPixels
    /\ reclassify_array(LastPixels, NLCD_RECLASSIFICATION)["forest"] = 120
    /\ class_counts["forest"] = 120
    /\ class_counts["nodata"] = 10

====
